---- MODULE Spec2Model ----
(***************************************************************************)
(* Drivers and laps: the FastAPI handlers of src/main.py over the two      *)
(* SQLite tables "drivers" and "laps".                                      *)
(*                                                                         *)
(* A table is the sequence of its rows in rowid (insertion) order.  An id  *)
(* is the string of a uuid4; the model names the n-th value drawn n.       *)
(* lap_time is a float, written here in tenths of a second (85.4 -> 854).  *)
(***************************************************************************)
EXTENDS Integers, Sequences, FiniteSets, TLC

VARIABLES up, drivers, laps, issued, last, proc

vars == <<up, drivers, laps, issued, last, proc>>

\* ------------------------------------------------------------------ bounds
\* uuid4 is called at most MaxIds times in a behaviour.
MaxIds == 5
\* Number of requests that may be in flight at once (threadpool workers).
MaxProcs == 2
\* ids drawn over a run of restarts: room for the example rows twice and
\* for rows created in between
MaxBootIds == 8

Procs == 1..MaxProcs
\* the sessions that can be open: one per worker thread, and lifespan's
Main == MaxProcs + 1
Sessions == Procs \cup {Main}

\* ------------------------------------------------------------------ inputs
\* A path parameter is any string: any id of the pool, issued or not.
IdArgs == 1..MaxIds
\* DriverBase.name: str -- any string, the empty one included.
Names == {"Lewis Hamilton", ""}
\* LapCreate/LapUpdate: lap_time is any float and track any string; the
\* values of lifespan's first example lap, and a zero time on an empty track.
\* A finite float goes through pydantic, the Float column and the response
\* unchanged.  NaN is not among the inputs: SQLite binds it as NULL, which
\* lap_time's nullable=False refuses.
LapPayloads ==
    { [lap_time |-> 854, track |-> "Silverstone"],
      [lap_time |-> 0, track |-> ""] }
DriverPayloads == [name : Names]

NoPayload == [none |-> TRUE]

\* ------------------------------------------------------------------ storage
Ids(rows) == {rows[i].id : i \in 1..Len(rows)}

\* a generator whose values come round again
uuid4_Cycle(n) == (n % 3) + 1

\* uuid.uuid4(): a 128-bit random value; the n-th draw of a behaviour is n+1,
\* given n values were drawn before it.
uuid4(n) == n + 1

\* db.query(DriverDB).filter(DriverDB.id == driver_id): the matching rows
DriverRows(ds, driver_id) == SelectSeq(ds, LAMBDA r : r.id = driver_id)

\* the lap looked up by its id alone
LapRows_AnyOwner(ls, driver_id, lap_id) == SelectSeq(ls, LAMBDA r : r.id = lap_id)

\* db.query(LapDB).filter(LapDB.id == lap_id, LapDB.driver_id == driver_id)
LapRows(ls, driver_id, lap_id) ==
    SelectSeq(ls, LAMBDA r : r.id = lap_id /\ r.driver_id = driver_id)

\* the relationship's collection read newest row first
LapsOf_NewestFirst(ls, driver_id) ==
    LET owned == SelectSeq(ls, LAMBDA r : r.driver_id = driver_id)
    IN  [i \in 1..Len(owned) |-> owned[Len(owned) + 1 - i]]

\* DriverDB.laps: the relationship's collection, the rows of laps whose
\* driver_id is the driver's id, in table order.
LapsOf(ls, driver_id) == SelectSeq(ls, LAMBDA r : r.driver_id = driver_id)

\* a relationship with no delete cascade
CascadeDelete_None(ls, driver_id) == ls

\* a cascade that stops after the first member of driver.laps
CascadeDelete_First(ls, driver_id) ==
    LET owned == LapsOf(ls, driver_id)
    IN  IF owned = <<>> THEN ls
        ELSE SelectSeq(ls, LAMBDA r : r.id # Head(owned).id)

\* cascade="all, delete-orphan": db.delete(driver) deletes every member of
\* driver.laps with it; what is left of the laps table.
CascadeDelete(ls, driver_id) == SelectSeq(ls, LAMBDA r : r.driver_id # driver_id)

\* DELETE FROM <table> WHERE id = ?
DeleteById(rows, id) == SelectSeq(rows, LAMBDA r : r.id # id)

\* ------------------------------------------------------------------ schemas
\* response_model=Lap: id, lap_time, track (driver_id is not a field of it)
LapOut(row) == [id |-> row.id, lap_time |-> row.lap_time, track |-> row.track]

LapsOut(rows) == [i \in 1..Len(rows) |-> LapOut(rows[i])]

\* a Driver serialised without its relationship
DriverOut_NoLaps(row, ls) == [id |-> row.id, name |-> row.name, laps |-> <<>>]

\* response_model=Driver: id, name and the laps of the relationship
DriverOut(row, ls) ==
    [id |-> row.id, name |-> row.name, laps |-> LapsOut(LapsOf(ls, row.id))]

DriversOut(ds, ls) == [i \in 1..Len(ds) |-> DriverOut(ds[i], ls)]

\* HTTPException(status_code=404, detail=...)
DriverNotFound == [detail |-> "Driver not found"]
LapNotFound == [detail |-> "Lap not found"]
\* an exception that is no HTTPException (sqlalchemy's IntegrityError)
ServerError == [detail |-> "Internal Server Error"]
DriverDeleted == [detail |-> "Driver deleted"]
LapDeleted == [detail |-> "Lap deleted"]

\* What a handler does: the response and the committed tables.
Result(status, body, ds, ls, n) ==
    [status |-> status, body |-> body, drivers |-> ds, laps |-> ls, issued |-> n]

\* ------------------------------------------------------------------ handlers
\* Each handler run alone, from get_db's session to its close.

create_driver(ds, ls, n, driver) ==
    LET id == uuid4(n)
        row == [id |-> id, name |-> driver.name]
    IN  IF id \in Ids(ds)
        THEN Result(500, ServerError, ds, ls, n + 1)
        ELSE Result(200, DriverOut(row, ls), Append(ds, row), ls, n + 1)

get_drivers(ds, ls, n) == Result(200, DriversOut(ds, ls), ds, ls, n)

get_driver(ds, ls, n, driver_id) ==
    LET found == DriverRows(ds, driver_id)
    IN  IF found = <<>>
        THEN Result(404, DriverNotFound, ds, ls, n)
        ELSE Result(200, DriverOut(Head(found), ls), ds, ls, n)

update_driver(ds, ls, n, driver_id, driver_update) ==
    LET found == DriverRows(ds, driver_id)
        ds2 == [i \in 1..Len(ds) |->
                  IF ds[i].id = driver_id
                  THEN [ds[i] EXCEPT !.name = driver_update.name] ELSE ds[i]]
    IN  IF found = <<>>
        THEN Result(404, DriverNotFound, ds, ls, n)
        ELSE Result(200, DriverOut(Head(DriverRows(ds2, driver_id)), ls), ds2, ls, n)

\* delete_driver without its "if not driver" check
delete_driver_Unchecked(ds, ls, n, driver_id) ==
    Result(200, DriverDeleted, DeleteById(ds, driver_id), CascadeDelete(ls, driver_id), n)

delete_driver(ds, ls, n, driver_id) ==
    LET found == DriverRows(ds, driver_id)
    IN  IF found = <<>>
        THEN Result(404, DriverNotFound, ds, ls, n)
        ELSE Result(200, DriverDeleted,
                    DeleteById(ds, driver_id), CascadeDelete(ls, driver_id), n)

\* create_lap without its "if not driver" check
create_lap_Unchecked(ds, ls, n, driver_id, lap) ==
    LET id == uuid4(n)
        row == [id |-> id, lap_time |-> lap.lap_time, track |-> lap.track,
                driver_id |-> driver_id]
    IN  Result(200, LapOut(row), ds, Append(ls, row), n + 1)

create_lap(ds, ls, n, driver_id, lap) ==
    LET found == DriverRows(ds, driver_id)
        id == uuid4(n)
        row == [id |-> id, lap_time |-> lap.lap_time, track |-> lap.track,
                driver_id |-> driver_id]
    IN  IF found = <<>>
        THEN Result(404, DriverNotFound, ds, ls, n)
        ELSE IF id \in Ids(ls)
        THEN Result(500, ServerError, ds, ls, n + 1)
        ELSE Result(200, LapOut(row), ds, Append(ls, row), n + 1)

get_laps(ds, ls, n, driver_id) ==
    LET found == DriverRows(ds, driver_id)
    IN  IF found = <<>>
        THEN Result(404, DriverNotFound, ds, ls, n)
        ELSE Result(200, LapsOut(LapsOf(ls, Head(found).id)), ds, ls, n)

\* get_lap looking the driver up first, as create_lap and get_laps do
get_lap_DriverChecked(ds, ls, n, driver_id, lap_id) ==
    LET found == LapRows(ls, driver_id, lap_id)
    IN  IF DriverRows(ds, driver_id) = <<>>
        THEN Result(404, DriverNotFound, ds, ls, n)
        ELSE IF found = <<>>
        THEN Result(404, LapNotFound, ds, ls, n)
        ELSE Result(200, LapOut(Head(found)), ds, ls, n)

get_lap(ds, ls, n, driver_id, lap_id) ==
    LET found == LapRows(ls, driver_id, lap_id)
    IN  IF found = <<>>
        THEN Result(404, LapNotFound, ds, ls, n)
        ELSE Result(200, LapOut(Head(found)), ds, ls, n)

\* update_lap adding the new time to the stored one
update_lap_Accumulate(ds, ls, n, driver_id, lap_id, lap_update) ==
    LET found == LapRows(ls, driver_id, lap_id)
        ls2 == [i \in 1..Len(ls) |->
                  IF ls[i].id = Head(found).id
                  THEN [ls[i] EXCEPT !.lap_time = @ + lap_update.lap_time,
                                     !.track = lap_update.track]
                  ELSE ls[i]]
    IN  IF found = <<>>
        THEN Result(404, LapNotFound, ds, ls, n)
        ELSE Result(200, LapOut(Head(SelectSeq(ls2, LAMBDA r : r.id = lap_id))),
                    ds, ls2, n)

\* update_lap finding the lap by its id alone and moving it under the
\* driver of the path
update_lap_Reassign(ds, ls, n, driver_id, lap_id, lap_update) ==
    LET found == SelectSeq(ls, LAMBDA r : r.id = lap_id)
        ls2 == [i \in 1..Len(ls) |->
                  IF ls[i].id = lap_id
                  THEN [ls[i] EXCEPT !.lap_time = lap_update.lap_time,
                                     !.track = lap_update.track,
                                     !.driver_id = driver_id]
                  ELSE ls[i]]
    IN  IF found = <<>>
        THEN Result(404, LapNotFound, ds, ls, n)
        ELSE Result(200, LapOut(Head(SelectSeq(ls2, LAMBDA r : r.id = lap_id))),
                    ds, ls2, n)

update_lap(ds, ls, n, driver_id, lap_id, lap_update) ==
    LET found == LapRows(ls, driver_id, lap_id)
        ls2 == [i \in 1..Len(ls) |->
                  IF ls[i].id = Head(found).id
                  THEN [ls[i] EXCEPT !.lap_time = lap_update.lap_time,
                                     !.track = lap_update.track]
                  ELSE ls[i]]
    IN  IF found = <<>>
        THEN Result(404, LapNotFound, ds, ls, n)
        ELSE Result(200, LapOut(Head(SelectSeq(ls2, LAMBDA r : r.id = lap_id))),
                    ds, ls2, n)

\* delete_lap deleting by the owner alone: every lap of the driver goes
delete_lap_AllOfDriver(ds, ls, n, driver_id, lap_id) ==
    LET found == LapRows(ls, driver_id, lap_id)
    IN  IF found = <<>>
        THEN Result(404, LapNotFound, ds, ls, n)
        ELSE Result(200, LapDeleted, ds,
                    SelectSeq(ls, LAMBDA r : r.driver_id # driver_id), n)

delete_lap(ds, ls, n, driver_id, lap_id) ==
    LET found == LapRows(ls, driver_id, lap_id)
    IN  IF found = <<>>
        THEN Result(404, LapNotFound, ds, ls, n)
        ELSE Result(200, LapDeleted, ds, DeleteById(ls, Head(found).id), n)

\* a startup that adds the example rows without counting the drivers
lifespan_Always(ds, ls, n) ==
    LET d == uuid4(n)
        driver == [id |-> d, name |-> "Lewis Hamilton"]
        lap1 == [id |-> uuid4(n + 1), lap_time |-> 854, track |-> "Silverstone", driver_id |-> d]
        lap2 == [id |-> uuid4(n + 2), lap_time |-> 862, track |-> "Monza", driver_id |-> d]
    IN  Result(200, NoPayload, ds \o <<driver>>, ls \o <<lap1, lap2>>, n + 3)

\* lifespan's startup: the example driver and its two laps, when the drivers
\* table has no row.
lifespan(ds, ls, n) ==
    LET d == uuid4(n)
        l1 == uuid4(n + 1)
        l2 == uuid4(n + 2)
        driver == [id |-> d, name |-> "Lewis Hamilton"]
        lap1 == [id |-> l1, lap_time |-> 854, track |-> "Silverstone", driver_id |-> d]
        lap2 == [id |-> l2, lap_time |-> 862, track |-> "Monza", driver_id |-> d]
    IN  IF Len(ds) = 0
        THEN IF {l1, l2} \cap Ids(ls) # {} \/ l1 = l2
             THEN Result(500, ServerError, ds, ls, n + 3)
             ELSE Result(200, NoPayload, <<driver>>, ls \o <<lap1, lap2>>, n + 3)
        ELSE Result(200, NoPayload, ds, ls, n)

\* ------------------------------------------------------------------ state
\* A request in flight: the handler, where it is, its arguments, what its
\* session holds (the ids of the rows loaded into driver.laps, the id of the
\* row it added) and its status code once known.
InFlight(pc, op, driver_id, payload, loaded, new_id, status) ==
    [pc |-> pc, op |-> op, driver_id |-> driver_id, payload |-> payload,
     loaded |-> loaded, new_id |-> new_id, status |-> status]

Idle == InFlight("idle", "none", 0, NoPayload, {}, 0, 0)

\* The request served last: its handler, its status code, whether its
\* driver_id and lap_id named a stored driver and a stored lap when it came
\* in, and whether it changed a table.
Request(op, status, driver_known, lap_known, changed) ==
    [op |-> op, status |-> status, driver_known |-> driver_known,
     lap_known |-> lap_known, changed |-> changed]

Init ==
    /\ up = FALSE
    /\ drivers = <<>>
    /\ laps = <<>>
    /\ issued = 0
    /\ last = Request("none", 0, FALSE, FALSE, FALSE)
    /\ proc = [p \in Sessions |-> Idle]

\* The handler ran from start to end with no other request in between.
Respond(op, driver_id, lap_id, r) ==
    /\ drivers' = r.drivers
    /\ laps' = r.laps
    /\ issued' = r.issued
    /\ last' = Request(op, r.status, driver_id \in Ids(drivers), lap_id \in Ids(laps),
                        r.drivers # drivers \/ r.laps # laps)
    /\ UNCHANGED <<up, proc>>

\* The server accepts requests once lifespan has yielded.
Serving == up /\ \A p \in Procs : proc[p] = Idle

\* uvicorn.run(app): the process starts and lifespan runs its startup part,
\* while the ids it may draw stay within the bound.
StartupWithin(bound) ==
    /\ ~up
    /\ Len(drivers) = 0 => issued + 3 <= bound
    /\ LET r == lifespan(drivers, laps, issued)
       IN  /\ up' = (r.status = 200)
           /\ drivers' = r.drivers
           /\ laps' = r.laps
           /\ issued' = r.issued
           /\ last' = Request("startup", r.status, FALSE, FALSE, r.drivers # drivers)
    /\ UNCHANGED proc

Startup == StartupWithin(MaxIds)

\* The process ends; test.db stays on disk.
Shutdown ==
    /\ Serving
    /\ up' = FALSE
    /\ last' = Request("shutdown", 0, FALSE, FALSE, FALSE)
    /\ UNCHANGED <<drivers, laps, issued, proc>>

CreateDriver ==
    /\ Serving
    /\ issued < MaxIds
    /\ \E d \in DriverPayloads :
          Respond("create_driver", 0, 0, create_driver(drivers, laps, issued, d))

GetDrivers ==
    /\ Serving
    /\ Respond("get_drivers", 0, 0, get_drivers(drivers, laps, issued))

GetDriver ==
    /\ Serving
    /\ \E id \in IdArgs :
          Respond("get_driver", id, 0, get_driver(drivers, laps, issued, id))

UpdateDriver ==
    /\ Serving
    /\ \E id \in IdArgs, d \in DriverPayloads :
          Respond("update_driver", id, 0, update_driver(drivers, laps, issued, id, d))

DeleteDriver ==
    /\ Serving
    /\ \E id \in IdArgs :
          Respond("delete_driver", id, 0, delete_driver(drivers, laps, issued, id))

CreateLap ==
    /\ Serving
    /\ issued < MaxIds
    /\ \E id \in IdArgs, l \in LapPayloads :
          Respond("create_lap", id, 0, create_lap(drivers, laps, issued, id, l))

GetLaps ==
    /\ Serving
    /\ \E id \in IdArgs :
          Respond("get_laps", id, 0, get_laps(drivers, laps, issued, id))

GetLap ==
    /\ Serving
    /\ \E id \in IdArgs, lid \in IdArgs :
          Respond("get_lap", id, lid, get_lap(drivers, laps, issued, id, lid))

UpdateLap ==
    /\ Serving
    /\ \E id \in IdArgs, lid \in IdArgs, l \in LapPayloads :
          Respond("update_lap", id, lid, update_lap(drivers, laps, issued, id, lid, l))

DeleteLap ==
    /\ Serving
    /\ \E id \in IdArgs, lid \in IdArgs :
          Respond("delete_lap", id, lid, delete_lap(drivers, laps, issued, id, lid))

Next ==
    \/ Startup
    \/ Shutdown
    \/ CreateDriver
    \/ GetDrivers
    \/ GetDriver
    \/ UpdateDriver
    \/ DeleteDriver
    \/ CreateLap
    \/ GetLaps
    \/ GetLap
    \/ UpdateLap
    \/ DeleteLap

\* Requests served one at a time.
Spec == Init /\ [][Next]_vars

\* ------------------------------------------------------------------ threads
\* Handlers are plain defs: starlette runs each request in a worker thread,
\* with its own session from get_db.  Statements of different requests
\* interleave.  A session's SELECT sees the rows committed so far (pysqlite
\* begins a transaction at the first INSERT/UPDATE/DELETE of a flush, not at a
\* SELECT); the statements of one flush and its COMMIT are one step (SQLite's
\* write lock).  The engine sets no PRAGMA foreign_keys, so SQLite does not
\* check laps.driver_id.

\* get_db: db = SessionLocal(); yield db -- create_lap is entered
BeginCreateLap(p) ==
    /\ up
    /\ proc[p] = Idle
    /\ issued + Cardinality({q \in Procs : proc[q].op = "create_lap"
                                           /\ proc[q].pc \in {"query", "commit"}}) < MaxIds
    /\ \E id \in IdArgs, l \in LapPayloads :
          proc' = [proc EXCEPT ![p] = InFlight("query", "create_lap", id, l, {}, 0, 0)]
    /\ UNCHANGED <<up, drivers, laps, issued, last>>

\* create_lap: driver = db.query(DriverDB)...first(); if not driver: raise
CreateLapQuery(p) ==
    /\ proc[p].op = "create_lap"
    /\ proc[p].pc = "query"
    /\ proc' = [proc EXCEPT ![p] =
                  IF DriverRows(drivers, proc[p].driver_id) = <<>>
                  THEN [@ EXCEPT !.pc = "close", !.status = 404]
                  ELSE [@ EXCEPT !.pc = "commit"]]
    /\ UNCHANGED <<up, drivers, laps, issued, last>>

\* create_lap: db_lap = LapDB(id=str(uuid.uuid4()), ...); db.add; db.commit()
CreateLapCommit(p) ==
    /\ proc[p].op = "create_lap"
    /\ proc[p].pc = "commit"
    /\ LET id == uuid4(issued)
           row == [id |-> id, lap_time |-> proc[p].payload.lap_time,
                   track |-> proc[p].payload.track, driver_id |-> proc[p].driver_id]
       IN  IF id \in Ids(laps)
           THEN /\ proc' = [proc EXCEPT ![p] = [@ EXCEPT !.pc = "close", !.status = 500]]
                /\ UNCHANGED laps
           ELSE /\ laps' = Append(laps, row)
                /\ proc' = [proc EXCEPT ![p] = [@ EXCEPT !.pc = "refresh", !.new_id = id]]
    /\ issued' = issued + 1
    /\ UNCHANGED <<up, drivers, last>>

\* create_lap: db.refresh(db_lap); return db_lap -- refresh raises when the
\* row is no longer there
CreateLapRefresh(p) ==
    /\ proc[p].op = "create_lap"
    /\ proc[p].pc = "refresh"
    /\ proc' = [proc EXCEPT ![p] =
                  [@ EXCEPT !.pc = "close",
                            !.status = IF proc[p].new_id \in Ids(laps) THEN 200 ELSE 500]]
    /\ UNCHANGED <<up, drivers, laps, issued, last>>

\* get_db: db = SessionLocal(); yield db -- delete_driver is entered
BeginDeleteDriver(p) ==
    /\ up
    /\ proc[p] = Idle
    /\ \E id \in IdArgs :
          proc' = [proc EXCEPT ![p] =
                     InFlight("query", "delete_driver", id, NoPayload, {}, 0, 0)]
    /\ UNCHANGED <<up, drivers, laps, issued, last>>

\* delete_driver: driver = db.query(DriverDB)...first(); if not driver: raise
DeleteDriverQuery(p) ==
    /\ proc[p].op = "delete_driver"
    /\ proc[p].pc = "query"
    /\ proc' = [proc EXCEPT ![p] =
                  IF DriverRows(drivers, proc[p].driver_id) = <<>>
                  THEN [@ EXCEPT !.pc = "close", !.status = 404]
                  ELSE [@ EXCEPT !.pc = "delete"]]
    /\ UNCHANGED <<up, drivers, laps, issued, last>>

\* delete_driver: db.delete(driver) -- the delete cascade loads driver.laps
\* and marks each of its members deleted
DeleteDriverCascade(p) ==
    /\ proc[p].op = "delete_driver"
    /\ proc[p].pc = "delete"
    /\ proc' = [proc EXCEPT ![p] =
                  [@ EXCEPT !.pc = "commit",
                            !.loaded = Ids(LapsOf(laps, proc[p].driver_id))]]
    /\ UNCHANGED <<up, drivers, laps, issued, last>>

\* delete_driver: db.commit() -- DELETE of each loaded lap by its id, DELETE
\* of the driver, COMMIT; a row already gone is a warning, not an error
DeleteDriverCommit(p) ==
    /\ proc[p].op = "delete_driver"
    /\ proc[p].pc = "commit"
    /\ laps' = SelectSeq(laps, LAMBDA r : r.id \notin proc[p].loaded)
    /\ drivers' = DeleteById(drivers, proc[p].driver_id)
    /\ proc' = [proc EXCEPT ![p] = [@ EXCEPT !.pc = "close", !.status = 200]]
    /\ UNCHANGED <<up, issued, last>>

\* get_db: finally: db.close() -- the response goes out
\* get_db without try/finally: db.close() is reached only when the handler
\* returned
Close_OnSuccess(p) ==
    /\ proc[p].pc = "close"
    /\ proc[p].status = 200
    /\ proc' = [proc EXCEPT ![p] = Idle]
    /\ UNCHANGED <<up, drivers, laps, issued, last>>

Close(p) ==
    /\ proc[p].pc = "close"
    /\ proc' = [proc EXCEPT ![p] = Idle]
    /\ UNCHANGED <<up, drivers, laps, issued, last>>

NextConc ==
    \/ Startup
    \/ \E p \in Procs :
          \/ BeginCreateLap(p)
          \/ CreateLapQuery(p)
          \/ CreateLapCommit(p)
          \/ CreateLapRefresh(p)
          \/ BeginDeleteDriver(p)
          \/ DeleteDriverQuery(p)
          \/ DeleteDriverCascade(p)
          \/ DeleteDriverCommit(p)
          \/ Close(p)

\* Requests served by concurrent worker threads.
SpecConc == Init /\ [][NextConc]_vars

\* ------------------------------------------------------------------ claims
Range(s) == {s[i] : i \in 1..Len(s)}

\* C1: requests served one at a time, startup seeding included: every stored
\* lap's driver_id is the id of a stored driver.
C1_NoOrphanLaps == \A l \in Range(laps) : l.driver_id \in Ids(drivers)

\* a driver was deleted while laps of another driver are stored
C1_Witness ==
    /\ last.op = "delete_driver" /\ last.status = 200
    /\ laps # <<>>

\* C2: delete_driver of a stored driver D answers 200 and leaves neither D
\* nor any lap D owned: get_lap(D, L) then answers "Lap not found" for each
\* such L, get_laps(D) and get_driver(D) answer "Driver not found"; the rows
\* of the other drivers and of their laps are as before, in the same order.
C2_DeleteDriverCascades ==
    \A d \in Ids(drivers) :
       LET r == delete_driver(drivers, laps, issued, d)
           owned == {l \in Range(laps) : l.driver_id = d}
       IN  /\ r.status = 200
           /\ d \notin Ids(r.drivers)
           /\ \A l \in owned :
                 /\ l.id \notin Ids(r.laps)
                 /\ get_lap(r.drivers, r.laps, r.issued, d, l.id).status = 404
                 /\ get_lap(r.drivers, r.laps, r.issued, d, l.id).body = LapNotFound
           /\ get_laps(r.drivers, r.laps, r.issued, d).status = 404
           /\ get_laps(r.drivers, r.laps, r.issued, d).body = DriverNotFound
           /\ get_driver(r.drivers, r.laps, r.issued, d).status = 404
           /\ get_driver(r.drivers, r.laps, r.issued, d).body = DriverNotFound
           /\ r.drivers = SelectSeq(drivers, LAMBDA x : x.id # d)
           /\ r.laps = SelectSeq(laps, LAMBDA x : x \notin owned)

\* a driver owning two laps was deleted and another driver's lap is left
C2_Witness ==
    /\ last.op = "delete_driver" /\ last.status = 200 /\ last.changed
    /\ 1 \notin Ids(drivers)
    /\ {2, 3} \cap Ids(laps) = {}
    /\ laps # <<>>

\* C3: for a stored lap L of driver Y, get_lap(X, L) with any X other than Y,
\* stored driver or not, answers 404 "Lap not found" and nothing of the lap;
\* get_lap(Y, L) answers 200 with the lap.
C3_GetLapOwnerScoped ==
    \A l \in Range(laps) :
       /\ \A x \in IdArgs \ {l.driver_id} :
             /\ get_lap(drivers, laps, issued, x, l.id).status = 404
             /\ get_lap(drivers, laps, issued, x, l.id).body = LapNotFound
       /\ get_lap(drivers, laps, issued, l.driver_id, l.id).status = 200
       /\ get_lap(drivers, laps, issued, l.driver_id, l.id).body = LapOut(l)

\* get_lap was answered 404 for a stored lap under another stored driver
C3_Witness ==
    /\ last.op = "get_lap" /\ last.status = 404
    /\ last.driver_known /\ last.lap_known

\* C4: for a stored lap L of driver Y and any X other than Y, update_lap(X, L,
\* ...) and delete_lap(X, L) answer 404 "Lap not found" and leave both tables
\* as they were.
C4_WrongOwnerWritesRejected ==
    \A l \in Range(laps) : \A x \in IdArgs \ {l.driver_id} :
       /\ \A u \in LapPayloads :
             LET r == update_lap(drivers, laps, issued, x, l.id, u)
             IN  /\ r.status = 404 /\ r.body = LapNotFound
                 /\ r.drivers = drivers /\ r.laps = laps
       /\ LET r == delete_lap(drivers, laps, issued, x, l.id)
          IN  /\ r.status = 404 /\ r.body = LapNotFound
              /\ r.drivers = drivers /\ r.laps = laps

\* update_lap or delete_lap was answered 404 for a stored lap under another
\* stored driver
C4_Witness ==
    /\ last.op \in {"update_lap", "delete_lap"} /\ last.status = 404
    /\ last.driver_known /\ last.lap_known /\ ~last.changed

\* the values uuid4 has returned so far
IssuedIds == {uuid4(k) : k \in 0..(issued - 1)}

\* C5: the id create_driver or create_lap returns, and each id lifespan
\* gives its example rows, is none of the ids issued before, those of deleted
\* rows included; every stored id is an issued one, and no two rows of a
\* table share an id.
C5_IdsNeverReused ==
    /\ \A d \in DriverPayloads :
          LET r == create_driver(drivers, laps, issued, d)
          IN  /\ r.status = 200
              /\ r.body.id \notin IssuedIds
              /\ r.drivers[Len(r.drivers)].id = r.body.id
    /\ \A x \in Ids(drivers), l \in LapPayloads :
          LET r == create_lap(drivers, laps, issued, x, l)
          IN  /\ r.status = 200
              /\ r.body.id \notin IssuedIds
              /\ r.laps[Len(r.laps)].id = r.body.id
    /\ drivers = <<>> =>
          LET r == lifespan(drivers, laps, issued)
          IN  /\ r.status = 200
              /\ (Ids(r.drivers) \cup (Ids(r.laps) \ Ids(laps))) \cap IssuedIds = {}
              /\ Cardinality(Ids(r.laps)) = Len(laps) + 2
    /\ Ids(drivers) \cup Ids(laps) \subseteq IssuedIds
    /\ Cardinality(Ids(drivers)) = Len(drivers)
    /\ Cardinality(Ids(laps)) = Len(laps)

\* a driver was created after the example driver had been deleted
C5_Witness ==
    /\ last.op = "create_driver" /\ last.status = 200
    /\ 1 \notin Ids(drivers)

\* C6: create_lap under an id that is no stored driver answers 404 "Driver
\* not found" and stores nothing; under a stored driver it answers 200 with
\* the new lap and appends exactly that one row, owned by that driver.
C6_CreateLapChecksDriver ==
    \A x \in IdArgs, l \in LapPayloads :
       LET r == create_lap(drivers, laps, issued, x, l)
       IN  IF x \notin Ids(drivers)
           THEN /\ r.status = 404 /\ r.body = DriverNotFound
                /\ r.drivers = drivers /\ r.laps = laps
           ELSE /\ r.status = 200
                /\ r.drivers = drivers
                /\ Len(r.laps) = Len(laps) + 1
                /\ SubSeq(r.laps, 1, Len(laps)) = laps
                /\ r.laps[Len(r.laps)].driver_id = x
                /\ r.laps[Len(r.laps)].id \notin Ids(laps)
                /\ r.body = LapOut(r.laps[Len(r.laps)])
                /\ r.body.lap_time = l.lap_time /\ r.body.track = l.track

\* create_lap was answered 404 for an id that is no stored driver, while
\* laps are stored
C6_Witness ==
    /\ last.op = "create_lap" /\ last.status = 404
    /\ ~last.driver_known /\ ~last.changed
    /\ laps # <<>>

\* C7: delete_driver of an id that is no stored driver answers 404 "Driver
\* not found" and leaves both tables as they were.
C7_DeleteMissingDriver ==
    \A x \in IdArgs \ Ids(drivers) :
       LET r == delete_driver(drivers, laps, issued, x)
       IN  /\ r.status = 404 /\ r.body = DriverNotFound
           /\ r.drivers = drivers /\ r.laps = laps

\* delete_driver was answered 404 while drivers and laps are stored
C7_Witness ==
    /\ last.op = "delete_driver" /\ last.status = 404
    /\ ~last.driver_known /\ ~last.changed
    /\ drivers # <<>> /\ laps # <<>>

\* C8: create_driver(name) answers the driver with that name and no laps;
\* create_lap under its id with (t, k) answers a lap with t and k; get_driver
\* of that id then lists a lap with that lap's id, t and k.
C8_CreateThenGetRoundTrip ==
    \A d \in DriverPayloads, l \in LapPayloads :
       LET r1 == create_driver(drivers, laps, issued, d)
           r2 == create_lap(r1.drivers, r1.laps, r1.issued, r1.body.id, l)
           r3 == get_driver(r2.drivers, r2.laps, r2.issued, r1.body.id)
       IN  /\ r1.status = 200
           /\ r1.body.name = d.name /\ r1.body.laps = <<>>
           /\ r2.status = 200
           /\ r2.body.lap_time = l.lap_time /\ r2.body.track = l.track
           /\ r3.status = 200
           /\ r3.body.id = r1.body.id /\ r3.body.name = d.name
           /\ \E i \in 1..Len(r3.body.laps) :
                 r3.body.laps[i] = [id |-> r2.body.id, lap_time |-> l.lap_time,
                                    track |-> l.track]

\* get_driver was answered for a driver made by create_driver that owns a
\* lap made by create_lap
C8_Witness ==
    /\ last.op = "get_driver" /\ last.status = 200
    /\ \E l \in Range(laps) : l.driver_id > 3 /\ l.driver_id \in Ids(drivers)

\* C9: update_driver, and update_lap, applied twice with the same values to
\* a stored entity answer 200 with the same body both times, and the tables
\* after the second are the tables after the first, with as many rows as
\* before the first.
C9_UpdatesIdempotent ==
    /\ \A x \in Ids(drivers), d \in DriverPayloads :
          LET r1 == update_driver(drivers, laps, issued, x, d)
              r2 == update_driver(r1.drivers, r1.laps, r1.issued, x, d)
          IN  /\ r1.status = 200 /\ r2.status = 200
              /\ r2.body = r1.body
              /\ r2.drivers = r1.drivers /\ r2.laps = r1.laps
              /\ Len(r1.drivers) = Len(drivers) /\ Len(r1.laps) = Len(laps)
    /\ \A l \in Range(laps), u \in LapPayloads :
          LET r1 == update_lap(drivers, laps, issued, l.driver_id, l.id, u)
              r2 == update_lap(r1.drivers, r1.laps, r1.issued, l.driver_id, l.id, u)
          IN  /\ r1.status = 200 /\ r2.status = 200
              /\ r2.body = r1.body
              /\ r2.drivers = r1.drivers /\ r2.laps = r1.laps
              /\ Len(r1.drivers) = Len(drivers) /\ Len(r1.laps) = Len(laps)

\* an update was answered 200 for an entity that already held its values
C9_Witness ==
    /\ last.op \in {"update_driver", "update_lap"} /\ last.status = 200
    /\ ~last.changed

\* C10: with create_lap and delete_driver interleaved, once every request
\* has ended no lap is stored whose driver is not.
C10_NoOrphanAfterRace ==
    (\A p \in Procs : proc[p] = Idle) =>
        \A l \in Range(laps) : l.driver_id \in Ids(drivers)

\* ------------------------------------------------------------------ reads
\* A read in flight: the rows its first SELECT loaded into the session, and
\* the response once it is built.
Reading(pc, op, driver_id, lap_id, found, status, body) ==
    [pc |-> pc, op |-> op, driver_id |-> driver_id, lap_id |-> lap_id,
     found |-> found, status |-> status, body |-> body]

ReadOps == {"get_drivers", "get_driver", "get_laps", "get_lap"}

\* get_db: db = SessionLocal(); yield db -- a read handler is entered
BeginRead(p) ==
    /\ up
    /\ proc[p] = Idle
    /\ \/ proc' = [proc EXCEPT ![p] =
                     Reading("query", "get_drivers", 0, 0, <<>>, 0, NoPayload)]
       \/ \E id \in IdArgs, op \in {"get_driver", "get_laps"} :
             proc' = [proc EXCEPT ![p] = Reading("query", op, id, 0, <<>>, 0, NoPayload)]
       \/ \E id \in IdArgs, lid \in IdArgs :
             proc' = [proc EXCEPT ![p] =
                        Reading("query", "get_lap", id, lid, <<>>, 0, NoPayload)]
    /\ UNCHANGED <<up, drivers, laps, issued, last>>

\* get_drivers: db.query(DriverDB).all()
GetDriversQuery(p) ==
    /\ proc[p].op = "get_drivers"
    /\ proc[p].pc = "query"
    /\ proc' = [proc EXCEPT ![p] = [@ EXCEPT !.pc = "load", !.found = drivers]]
    /\ UNCHANGED <<up, drivers, laps, issued, last>>

\* get_driver, get_laps: driver = db.query(DriverDB)...first(); if not
\* driver: raise
GetDriverQuery(p) ==
    /\ proc[p].op \in {"get_driver", "get_laps"}
    /\ proc[p].pc = "query"
    /\ LET found == DriverRows(drivers, proc[p].driver_id)
       IN  proc' = [proc EXCEPT ![p] =
                      IF found = <<>>
                      THEN [@ EXCEPT !.pc = "close", !.status = 404,
                                     !.body = DriverNotFound]
                      ELSE [@ EXCEPT !.pc = "load", !.found = found]]
    /\ UNCHANGED <<up, drivers, laps, issued, last>>

\* driver.laps is read (get_laps: return driver.laps; get_driver and
\* get_drivers: the response model reads it): the relationship's lazy load,
\* a second SELECT, on the rows the first one loaded
LoadLaps(p) ==
    /\ proc[p].op \in {"get_drivers", "get_driver", "get_laps"}
    /\ proc[p].pc = "load"
    /\ LET found == proc[p].found
           body == CASE proc[p].op = "get_drivers" -> DriversOut(found, laps)
                     [] proc[p].op = "get_driver" -> DriverOut(Head(found), laps)
                     [] proc[p].op = "get_laps" -> LapsOut(LapsOf(laps, Head(found).id))
       IN  proc' = [proc EXCEPT ![p] =
                      [@ EXCEPT !.pc = "close", !.status = 200, !.body = body]]
    /\ UNCHANGED <<up, drivers, laps, issued, last>>

\* get_lap: lap = db.query(LapDB).filter(...).first(); if not lap: raise;
\* return lap
GetLapQuery(p) ==
    /\ proc[p].op = "get_lap"
    /\ proc[p].pc = "query"
    /\ LET r == get_lap(drivers, laps, issued, proc[p].driver_id, proc[p].lap_id)
       IN  proc' = [proc EXCEPT ![p] =
                      [@ EXCEPT !.pc = "close", !.status = r.status, !.body = r.body]]
    /\ UNCHANGED <<up, drivers, laps, issued, last>>

NextRead ==
    \/ Startup
    \/ \E p \in Procs :
          \/ BeginDeleteDriver(p)
          \/ DeleteDriverQuery(p)
          \/ DeleteDriverCascade(p)
          \/ DeleteDriverCommit(p)
          \/ BeginRead(p)
          \/ GetDriversQuery(p)
          \/ GetDriverQuery(p)
          \/ LoadLaps(p)
          \/ GetLapQuery(p)
          \/ Close(p)

\* delete_driver and the reads served by concurrent worker threads.
SpecRead == Init /\ [][NextRead]_vars

\* The read handler run alone on the given tables.
ReadAlone(op, ds, ls, driver_id, lap_id) ==
    CASE op = "get_drivers" -> get_drivers(ds, ls, 0)
      [] op = "get_driver" -> get_driver(ds, ls, 0, driver_id)
      [] op = "get_laps" -> get_laps(ds, ls, 0, driver_id)
      [] op = "get_lap" -> get_lap(ds, ls, 0, driver_id, lap_id)

\* the tables with the example driver and its two laps, and with it deleted
SeededTables == lifespan(<<>>, <<>>, 0)
DeletedTables ==
    delete_driver(SeededTables.drivers, SeededTables.laps, 0,
                  Head(SeededTables.drivers).id)

\* C11: with only delete_driver writing, each read's response is the one the
\* read gives on the tables before the deletion (the driver with both laps)
\* or on the tables after it (no driver, no lap).
C11_ReadsSeeBeforeOrAfter ==
    \A p \in Procs :
       (proc[p].pc = "close" /\ proc[p].op \in ReadOps) =>
          \E t \in {SeededTables, DeletedTables} :
             LET r == ReadAlone(proc[p].op, t.drivers, t.laps,
                                proc[p].driver_id, proc[p].lap_id)
             IN  /\ proc[p].status = r.status
                 /\ proc[p].body = r.body

\* ------------------------------------------------------------------ updates
\* LapUpdate bodies for the threads: each lap_time with each track
UpdatePayloads == [lap_time : {854, 0}, track : {"Silverstone", ""}]

\* An update_lap in flight: the lap row its SELECT loaded into the session.
Updating(pc, op, driver_id, lap_id, payload, found, status, body) ==
    [pc |-> pc, op |-> op, driver_id |-> driver_id, lap_id |-> lap_id,
     payload |-> payload, found |-> found, status |-> status, body |-> body]

\* lap.lap_time = ...; lap.track = ...; db.commit(): the flush writes
\* UPDATE laps SET <the attributes whose new value differs from the loaded
\* one> WHERE id = <loaded id>; the row as it is afterwards.
FlushUpdate(row, loaded, lap_update) ==
    [row EXCEPT
       !.lap_time = IF lap_update.lap_time # loaded.lap_time
                    THEN lap_update.lap_time ELSE @,
       !.track = IF lap_update.track # loaded.track THEN lap_update.track ELSE @]

\* get_db: db = SessionLocal(); yield db -- update_lap is entered, with the
\* id of a stored driver or of none, and the id of a stored lap or of none
BeginUpdateLap(p) ==
    /\ up
    /\ proc[p] = Idle
    /\ \E id \in Ids(drivers) \cup {MaxIds}, lid \in Ids(laps) \cup {MaxIds},
          u \in UpdatePayloads :
          proc' = [proc EXCEPT ![p] =
                     Updating("query", "update_lap", id, lid, u, <<>>, 0, NoPayload)]
    /\ UNCHANGED <<up, drivers, laps, issued, last>>

\* update_lap: lap = db.query(LapDB).filter(...).first(); if not lap: raise
UpdateLapQuery(p) ==
    /\ proc[p].op = "update_lap"
    /\ proc[p].pc = "query"
    /\ LET found == LapRows(laps, proc[p].driver_id, proc[p].lap_id)
       IN  proc' = [proc EXCEPT ![p] =
                      IF found = <<>>
                      THEN [@ EXCEPT !.pc = "close", !.status = 404, !.body = LapNotFound]
                      ELSE [@ EXCEPT !.pc = "commit", !.found = found]]
    /\ UNCHANGED <<up, drivers, laps, issued, last>>

\* update_lap: lap.lap_time = ...; lap.track = ...; db.commit() -- an UPDATE
\* that matches no row raises StaleDataError
UpdateLapCommit(p) ==
    /\ proc[p].op = "update_lap"
    /\ proc[p].pc = "commit"
    /\ LET loaded == Head(proc[p].found)
           u == proc[p].payload
           dirty == u.lap_time # loaded.lap_time \/ u.track # loaded.track
       IN  IF dirty /\ loaded.id \notin Ids(laps)
           THEN /\ proc' = [proc EXCEPT ![p] =
                              [@ EXCEPT !.pc = "close", !.status = 500,
                                        !.body = ServerError]]
                /\ UNCHANGED laps
           ELSE /\ laps' = [i \in 1..Len(laps) |->
                              IF laps[i].id = loaded.id
                              THEN FlushUpdate(laps[i], loaded, u) ELSE laps[i]]
                /\ proc' = [proc EXCEPT ![p] = [@ EXCEPT !.pc = "refresh"]]
    /\ UNCHANGED <<up, drivers, issued, last>>

\* update_lap: db.refresh(lap); return lap
UpdateLapRefresh(p) ==
    /\ proc[p].op = "update_lap"
    /\ proc[p].pc = "refresh"
    /\ LET row == SelectSeq(laps, LAMBDA r : r.id = Head(proc[p].found).id)
       IN  proc' = [proc EXCEPT ![p] =
                      IF row = <<>>
                      THEN [@ EXCEPT !.pc = "close", !.status = 500, !.body = ServerError]
                      ELSE [@ EXCEPT !.pc = "close", !.status = 200,
                                     !.body = LapOut(Head(row))]]
    /\ UNCHANGED <<up, drivers, laps, issued, last>>

NextUpdate ==
    \/ Startup
    \/ \E p \in Procs :
          \/ BeginUpdateLap(p)
          \/ UpdateLapQuery(p)
          \/ UpdateLapCommit(p)
          \/ UpdateLapRefresh(p)
          \/ Close(p)

\* update_lap served by concurrent worker threads.
SpecUpdate == Init /\ [][NextUpdate]_vars

\* C12: when the threads have each answered 200 to an update_lap of the
\* same lap, the stored lap_time and track are together the values of one
\* of the two requests.
C12_NoMixedUpdate ==
    \A p \in Procs, q \in Procs :
       ( /\ p # q
         /\ proc[p].pc = "close" /\ proc[p].op = "update_lap" /\ proc[p].status = 200
         /\ proc[q].pc = "close" /\ proc[q].op = "update_lap" /\ proc[q].status = 200
         /\ proc[p].lap_id = proc[q].lap_id ) =>
       \A l \in Range(laps) :
          l.id = proc[p].lap_id =>
             [lap_time |-> l.lap_time, track |-> l.track]
                \in {proc[p].payload, proc[q].payload}

\* C13: get_laps of a stored driver answers 200 with exactly the laps that
\* driver owns now, each with its stored values, the earlier created first
\* (ids are numbered as they are drawn, so a smaller id is an earlier lap);
\* of an id that is no stored driver it answers 404 "Driver not found".
C13_GetLapsInCreationOrder ==
    \A x \in IdArgs :
       LET r == get_laps(drivers, laps, issued, x)
           owned == {l \in Range(laps) : l.driver_id = x}
       IN  IF x \notin Ids(drivers)
           THEN r.status = 404 /\ r.body = DriverNotFound
           ELSE /\ r.status = 200
                /\ Len(r.body) = Cardinality(owned)
                /\ {r.body[i] : i \in 1..Len(r.body)} = {LapOut(l) : l \in owned}
                /\ \A i \in 1..Len(r.body), j \in 1..Len(r.body) :
                      i < j => r.body[i].id < r.body[j].id

\* get_laps was answered for the example driver after its first lap was
\* deleted and a new lap was created under it
C13_Witness ==
    /\ last.op = "get_laps" /\ last.status = 200
    /\ 2 \notin Ids(laps) /\ 3 \in Ids(laps)
    /\ \E l \in Range(laps) : l.id > 3 /\ l.driver_id = 1

\* ------------------------------------------------------------------ restarts
\* The process started again on the test.db the runs before left behind.
Boot == StartupWithin(MaxBootIds)

NextBoot ==
    \/ Boot
    \/ Shutdown
    \/ CreateDriver
    \/ DeleteDriver
    \/ DeleteLap

\* Runs of the server over one database file.
SpecBoot == Init /\ [][NextBoot]_vars

\* C14 as stated: a startup after the first one (ids were drawn before it)
\* inserts nothing.
C14_SeedsOnlyAtFirstStartup ==
    [][(~up /\ up' /\ issued > 0) => (drivers' = drivers /\ laps' = laps)]_vars

\* C14: every startup that finds the drivers table empty, the first or a
\* later one, adds the example driver under a new id with its two example
\* laps; a startup that finds a driver adds nothing.
C14_SeedsWheneverEmpty ==
    [][(~up /\ up') =>
          IF Len(drivers) = 0
          THEN /\ Len(drivers') = 1
               /\ drivers'[1].name = "Lewis Hamilton"
               /\ drivers'[1].id \notin IssuedIds
               /\ Len(laps') = Len(laps) + 2
               /\ SubSeq(laps', 1, Len(laps)) = laps
               /\ LET l1 == laps'[Len(laps) + 1]
                      l2 == laps'[Len(laps) + 2]
                  IN  /\ l1.driver_id = drivers'[1].id /\ l2.driver_id = drivers'[1].id
                      /\ <<l1.lap_time, l1.track>> = <<854, "Silverstone">>
                      /\ <<l2.lap_time, l2.track>> = <<862, "Monza">>
                      /\ {l1.id, l2.id} \cap IssuedIds = {} /\ l1.id # l2.id
          ELSE drivers' = drivers /\ laps' = laps]_vars

\* a later startup found the table emptied and added the example rows again
C14_Witness ==
    /\ last.op = "startup" /\ last.changed
    /\ issued > 3

\* the laps of r that were stored before have the owner they had
KeepsOwners(r) ==
    \A l \in Range(laps), l2 \in Range(r.laps) :
       l.id = l2.id => l.driver_id = l2.driver_id

\* C15: update_driver leaves the laps table and every driver's id as they
\* are and changes at most the name of the driver it names; update_lap
\* leaves the drivers table and every lap's id and driver_id as they are and
\* changes at most lap_time and track of the lap it names; and no write
\* handler gives a lap that stays stored another owner.
C15_IdsAndOwnersImmutable ==
    /\ \A x \in IdArgs, d \in DriverPayloads :
          LET r == update_driver(drivers, laps, issued, x, d)
          IN  /\ r.laps = laps
              /\ Len(r.drivers) = Len(drivers)
              /\ \A i \in 1..Len(drivers) :
                    /\ r.drivers[i].id = drivers[i].id
                    /\ drivers[i].id # x => r.drivers[i] = drivers[i]
    /\ \A x \in IdArgs, y \in IdArgs, l \in LapPayloads :
          LET r == update_lap(drivers, laps, issued, x, y, l)
          IN  /\ r.drivers = drivers
              /\ Len(r.laps) = Len(laps)
              /\ \A i \in 1..Len(laps) :
                    /\ r.laps[i].id = laps[i].id
                    /\ r.laps[i].driver_id = laps[i].driver_id
                    /\ (laps[i].id # y \/ laps[i].driver_id # x) => r.laps[i] = laps[i]
    /\ \A d \in DriverPayloads : KeepsOwners(create_driver(drivers, laps, issued, d))
    /\ \A x \in IdArgs : KeepsOwners(delete_driver(drivers, laps, issued, x))
    /\ \A x \in IdArgs, l \in LapPayloads : KeepsOwners(create_lap(drivers, laps, issued, x, l))
    /\ \A x \in IdArgs, y \in IdArgs : KeepsOwners(delete_lap(drivers, laps, issued, x, y))
    /\ KeepsOwners(lifespan(drivers, laps, issued))

\* an update_lap changed a stored lap while a second driver was stored
C15_Witness ==
    /\ last.op = "update_lap" /\ last.status = 200 /\ last.changed
    /\ Len(drivers) > 1

\* C16 as stated: a not-found response carries the identifiers that failed
\* to resolve, so the responses for two different missing drivers, or for
\* two different missing laps of one driver, differ.
C16_NotFoundCarriesIds ==
    up =>
       /\ \A x \in IdArgs \ Ids(drivers), y \in IdArgs \ Ids(drivers) :
             x # y =>
                get_driver(drivers, laps, issued, x).body
                   # get_driver(drivers, laps, issued, y).body
       /\ \A x \in IdArgs, y \in IdArgs \ Ids(laps), z \in IdArgs \ Ids(laps) :
             y # z =>
                get_lap(drivers, laps, issued, x, y).body
                   # get_lap(drivers, laps, issued, x, z).body

\* C16: a request that names a driver answers 404 exactly when that driver
\* is not stored, and a request that names a lap under a driver answers 404
\* exactly when no stored lap has that id and that owner (a missing driver
\* included); the 404 body is the fixed message "Driver not found" or "Lap
\* not found" and nothing else, the tables stay as they are, and every other
\* response is 200.
C16_NotFoundIsFixedMessage ==
    /\ \A x \in IdArgs :
          LET Answer(r) ==
                 IF x \in Ids(drivers)
                 THEN r.status = 200
                 ELSE /\ r.status = 404
                      /\ r.body = [detail |-> "Driver not found"]
                      /\ r.drivers = drivers /\ r.laps = laps
          IN  /\ Answer(get_driver(drivers, laps, issued, x))
              /\ Answer(delete_driver(drivers, laps, issued, x))
              /\ Answer(get_laps(drivers, laps, issued, x))
              /\ \A d \in DriverPayloads :
                    Answer(update_driver(drivers, laps, issued, x, d))
              /\ \A l \in LapPayloads :
                    Answer(create_lap(drivers, laps, issued, x, l))
    /\ \A x \in IdArgs, y \in IdArgs :
          LET Answer(r) ==
                 IF \E l \in Range(laps) : l.id = y /\ l.driver_id = x
                 THEN r.status = 200
                 ELSE /\ r.status = 404
                      /\ r.body = [detail |-> "Lap not found"]
                      /\ r.drivers = drivers /\ r.laps = laps
          IN  /\ Answer(get_lap(drivers, laps, issued, x, y))
              /\ Answer(delete_lap(drivers, laps, issued, x, y))
              /\ \A l \in LapPayloads :
                    Answer(update_lap(drivers, laps, issued, x, y, l))

\* get_lap was answered 404 for a lap under a driver that is not stored
C16_Witness ==
    /\ last.op = "get_lap" /\ last.status = 404
    /\ ~last.driver_known

\* ------------------------------------------------------------------ sessions
\* get_db: db = SessionLocal(); yield db -- a request came in and its session
\* is open; which handler it is for shows when the handler runs.
OpenSession(p) ==
    /\ up
    /\ proc[Main] = Idle
    /\ proc[p] = Idle
    /\ proc' = [proc EXCEPT ![p] = InFlight("run", "any", 0, NoPayload, {}, 0, 0)]
    /\ UNCHANGED <<up, drivers, laps, issued, last>>

\* The handler returned or raised HTTPException: either way control goes
\* back into get_db, to its finally.
Handled(p, r) ==
    /\ drivers' = r.drivers
    /\ laps' = r.laps
    /\ issued' = r.issued
    /\ proc' = [proc EXCEPT ![p] = InFlight("close", "any", 0, NoPayload, {}, 0, r.status)]
    /\ UNCHANGED <<up, last>>

Handle(p) ==
    /\ proc[p].pc = "run"
    /\ \/ issued < MaxIds /\ \E d \in DriverPayloads :
             Handled(p, create_driver(drivers, laps, issued, d))
       \/ Handled(p, get_drivers(drivers, laps, issued))
       \/ \E id \in IdArgs : Handled(p, get_driver(drivers, laps, issued, id))
       \/ \E id \in IdArgs, d \in DriverPayloads :
             Handled(p, update_driver(drivers, laps, issued, id, d))
       \/ \E id \in IdArgs : Handled(p, delete_driver(drivers, laps, issued, id))
       \/ issued < MaxIds /\ \E id \in IdArgs, l \in LapPayloads :
             Handled(p, create_lap(drivers, laps, issued, id, l))
       \/ \E id \in IdArgs : Handled(p, get_laps(drivers, laps, issued, id))
       \/ \E id \in IdArgs, lid \in IdArgs :
             Handled(p, get_lap(drivers, laps, issued, id, lid))
       \/ \E id \in IdArgs, lid \in IdArgs, l \in LapPayloads :
             Handled(p, update_lap(drivers, laps, issued, id, lid, l))
       \/ \E id \in IdArgs, lid \in IdArgs :
             Handled(p, delete_lap(drivers, laps, issued, id, lid))

\* lifespan: db = SessionLocal()
LifespanOpen ==
    /\ ~up
    /\ proc[Main] = Idle
    /\ Len(drivers) = 0 => issued + 3 <= MaxIds
    /\ proc' = [proc EXCEPT ![Main] = InFlight("run", "startup", 0, NoPayload, {}, 0, 0)]
    /\ UNCHANGED <<up, drivers, laps, issued, last>>

\* lifespan: the count, and the example rows when it is 0
LifespanSeed ==
    /\ proc[Main].pc = "run"
    /\ LET r == lifespan(drivers, laps, issued)
       IN  /\ drivers' = r.drivers
           /\ laps' = r.laps
           /\ issued' = r.issued
           /\ last' = Request("startup", r.status, FALSE, FALSE, r.drivers # drivers)
           /\ proc' = [proc EXCEPT ![Main] =
                          InFlight("close", "startup", 0, NoPayload, {}, 0, r.status)]
    /\ UNCHANGED up

\* lifespan: finally db.close(), then yield -- the server takes requests
LifespanClose ==
    /\ proc[Main].pc = "close"
    /\ proc' = [proc EXCEPT ![Main] = Idle]
    /\ up' = (proc[Main].status = 200)
    /\ UNCHANGED <<drivers, laps, issued, last>>

NextSession ==
    \/ LifespanOpen
    \/ LifespanSeed
    \/ LifespanClose
    \/ Shutdown
    \/ \E p \in Procs :
          \/ OpenSession(p)
          \/ Handle(p)
          \/ Close(p)

\* Every request with its session; a thread that can take its next step
\* takes it.
SpecSession ==
    /\ Init
    /\ [][NextSession]_vars
    /\ WF_vars(LifespanSeed)
    /\ WF_vars(LifespanClose)
    /\ \A p \in Procs : WF_vars(Handle(p)) /\ WF_vars(Close(p))

\* C17: a session that is open, a request's or lifespan's, is closed later,
\* whether the handler answers 200 or 404 and whether lifespan adds the
\* example rows or not.
C17_SessionsClosed ==
    \A p \in Sessions : (proc[p].pc # "idle") ~> (proc[p].pc = "idle")

\* a handler has answered 404 and its session is still open, on a server
\* whose last startup added nothing
C17_Witness ==
    /\ \E p \in Procs : proc[p].pc = "close" /\ proc[p].status = 404
    /\ last.op = "startup" /\ ~last.changed

\* C18: every stored driver has a name that is not empty, and every stored
\* lap a lap_time above 0 and a track that is not empty.
C18_StoredValuesValid ==
    /\ \A d \in Range(drivers) : d.name # ""
    /\ \A l \in Range(laps) : l.lap_time > 0 /\ l.track # ""

\* C19: delete_lap of a stored lap under its owner answers 200, leaves the
\* drivers table as it is (the owner with its name included) and every other
\* lap as it is and where it is, and removes the lap: get_lap of it then
\* answers 404 "Lap not found"; and at any later time get_lap of an id that
\* was issued and is no stored lap answers 404 "Lap not found".
C19_DeleteLapRemovesOnlyThatLap ==
    /\ \A l \in Range(laps) :
          LET r == delete_lap(drivers, laps, issued, l.driver_id, l.id)
              after == get_lap(r.drivers, r.laps, r.issued, l.driver_id, l.id)
          IN  /\ r.status = 200
              /\ r.drivers = drivers
              /\ r.laps = SelectSeq(laps, LAMBDA x : x # l)
              /\ Len(r.laps) = Len(laps) - 1
              /\ after.status = 404 /\ after.body = [detail |-> "Lap not found"]
    /\ \A y \in IssuedIds \ Ids(laps), x \in IdArgs :
          LET r == get_lap(drivers, laps, issued, x, y)
          IN  r.status = 404 /\ r.body = [detail |-> "Lap not found"]

\* a lap was deleted while its driver kept another lap and a second driver
\* was stored
C19_Witness ==
    /\ last.op = "delete_lap" /\ last.status = 200
    /\ Len(drivers) > 1
    /\ \E l \in Range(laps) : l.driver_id = 1

====
